---- MODULE Spec2Model ----
(***************************************************************************)
(* s3sha256sum: streaming SHA-256 of S3 objects with interrupt / resume.   *)
(*                                                                         *)
(* The model has two parts that share one set of variables:                *)
(*   - the codec (hashMarshalBinary / hashUnmarshalBinary and the digest   *)
(*     layout they wrap), exercised by the specification SpecCodec;        *)
(*   - the run of main(): the main goroutine, the signal goroutine, the    *)
(*     paranoid goroutine and the writes io.Copy makes into the hash,      *)
(*     exercised by the specification Spec.                                *)
(*                                                                         *)
(* Representation.  TLC integers are 32 bit signed, so a uint32 chaining   *)
(* word is a record [hi, lo] of two 16-bit halves; digest.len (uint64) is  *)
(* a natural number, and every run keeps it far below 2^31.  Byte strings  *)
(* are sequences over 0..255, 1-indexed: Go's b[i] is b[i+1] here.         *)
(***************************************************************************)
EXTENDS Integers, Sequences, FiniteSets, TLC

chunk == 64
expectedMarshaledSize == 108
\* "sha\x03"
magic256 == <<115, 104, 97, 3>>

NoErr == "ok"

Min(a, b) == IF a < b THEN a ELSE b

Zeros(n) == SubSeq([i \in 1..n |-> 0], 1, n)

\* Go's b[lo:hi] on a 0-indexed slice: elements lo .. hi-1.
Slice(b, lo, hi) == SubSeq(b, lo + 1, hi)

\* Go's copy(dst, src): overwrite the first min(len) elements, return dst.
Copy(dst, src) ==
    IF Len(src) >= Len(dst) THEN SubSeq(src, 1, Len(dst))
    ELSE src \o SubSeq(dst, Len(src) + 1, Len(dst))

(***************************************************************************)
(* The digest layout                                                       *)
(***************************************************************************)

appendUint32(b, x) ==
    b \o <<x.hi \div 256, x.hi % 256, x.lo \div 256, x.lo % 256>>

\* x < 2^31 in every state of the model, so the upper four bytes are zero.
appendUint64(b, x) ==
    b \o <<0, 0, 0, 0,
           (x \div 16777216) % 256, (x \div 65536) % 256,
           (x \div 256) % 256, x % 256>>

consumeUint32(b) ==
    <<Slice(b, 4, Len(b)),
      [hi |-> b[1] * 256 + b[2], lo |-> b[3] * 256 + b[4]]>>

RECURSIVE BigEndian(_, _)
BigEndian(b, n) ==
    IF n = 0 THEN 0 ELSE BigEndian(b, n - 1) * 256 + b[n]

\* A uint64 of 2^24 or more is beyond every length the model reaches; it is
\* kept as 2^24 plus its low 24 bits, which keeps it above every object's
\* length and keeps its remainder modulo chunk.
lenBeyond == 16777216

consumeUint64(b) ==
    LET low == BigEndian(Slice(b, 5, 8), 3)
        v   == IF \A i \in 1..5 : b[i] = 0 THEN low ELSE lenBeyond + low
    IN  <<Slice(b, 8, Len(b)), v>>

RECURSIVE AppendWords(_, _, _)
AppendWords(b, h, i) ==
    IF i > Len(h) THEN b ELSE AppendWords(appendUint32(b, h[i]), h, i + 1)

\* digest.MarshalBinary: magic, h[0..7], x[:nx] zero padded to 64, len.
MarshalBinary(d) ==
    LET b1 == AppendWords(magic256, d.h, 1)
        b2 == b1 \o Slice(d.x, 0, d.nx)
        b3 == b2 \o Zeros(Len(d.x) - d.nx)
    IN  appendUint64(b3, d.len)

\* UnmarshalBinary that restores h and len but leaves the buffer alone.
UnmarshalBinaryNoBuffer(d, b) ==
    IF Len(b) # Len(magic256) + 8 * 4 + chunk + 8
    THEN [err |-> "invalid hash state size", d |-> d]
    ELSE LET ln == consumeUint64(Slice(b, 36 + chunk, Len(b)))[2]
         IN  [err |-> NoErr,
              d   |-> [h   |-> [i \in 1..8 |->
                                  consumeUint32(Slice(b, 4 * i, 4 * i + 4))[2]],
                       x   |-> d.x,
                       nx  |-> ln % chunk,
                       len |-> ln]]

\* UnmarshalBinary without "d.nx = int(d.len % chunk)".
UnmarshalBinaryForgetsNx(d, b) ==
    IF Len(b) # Len(magic256) + 8 * 4 + chunk + 8
    THEN [err |-> "invalid hash state size", d |-> d]
    ELSE LET ln == consumeUint64(Slice(b, 36 + chunk, Len(b)))[2]
         IN  [err |-> NoErr,
              d   |-> [h   |-> [i \in 1..8 |->
                                  consumeUint32(Slice(b, 4 * i, 4 * i + 4))[2]],
                       x   |-> Copy(d.x, Slice(b, 36, 36 + chunk)),
                       nx  |-> d.nx,
                       len |-> ln]]

\* UnmarshalBinary that fills the fields before it looks at the magic.
UnmarshalBinaryEager(d, b) ==
    IF Len(b) # Len(magic256) + 8 * 4 + chunk + 8
    THEN [err |-> "invalid hash state size", d |-> d]
    ELSE LET ln == consumeUint64(Slice(b, 36 + chunk, Len(b)))[2]
             d1 == [h   |-> [i \in 1..8 |->
                               consumeUint32(Slice(b, 4 * i, 4 * i + 4))[2]],
                    x   |-> Copy(d.x, Slice(b, 36, 36 + chunk)),
                    nx  |-> ln % chunk,
                    len |-> ln]
         IN  IF Slice(b, 0, Len(magic256)) # magic256
             THEN [err |-> "invalid hash state identifier", d |-> d1]
             ELSE [err |-> NoErr, d |-> d1]

\* digest.UnmarshalBinary: [err, d]; d is untouched when err is set.
UnmarshalBinary(d, b) ==
    IF Len(b) < Len(magic256) \/ Slice(b, 0, Len(magic256)) # magic256
    THEN [err |-> "invalid hash state identifier", d |-> d]
    ELSE IF Len(b) # Len(magic256) + 8 * 4 + chunk + 8
    THEN [err |-> "invalid hash state size", d |-> d]
    ELSE LET hb == Slice(b, 4, 36)
             xb == Slice(b, 36, 36 + chunk)
             lb == Slice(b, 36 + chunk, Len(b))
             ln == consumeUint64(lb)[2]
         IN  [err |-> NoErr,
              d   |-> [h   |-> [i \in 1..8 |->
                                  consumeUint32(Slice(hb, 4 * (i - 1), 4 * i))[2]],
                       x   |-> Copy(d.x, xb),
                       nx  |-> ln % chunk,
                       len |-> ln]]

(***************************************************************************)
(* IntegrityChecksum: fletcher8 is called by hash.go but its file is not   *)
(* among the sources; it is modelled from the specification's description  *)
(* (two running sums over small moduli, combined into one byte).           *)
(***************************************************************************)

\* The two sums over b[lo .. hi]: sum1 adds each byte, sum2 adds sum1 after
\* each byte; both modulo 15.  The sums of a range are combined from the
\* sums of its halves.
RECURSIVE FletcherSums(_, _, _)
FletcherSums(b, lo, hi) ==
    IF lo > hi THEN <<0, 0>>
    ELSE IF lo = hi THEN <<b[lo] % 15, b[lo] % 15>>
    ELSE LET mid == (lo + hi) \div 2
             l   == FletcherSums(b, lo, mid)
             r   == FletcherSums(b, mid + 1, hi)
         IN  <<(l[1] + r[1]) % 15,
               (l[2] + ((hi - mid) % 15) * l[1] + r[2]) % 15>>

fletcher8(b) ==
    LET s == FletcherSums(b, 1, Len(b)) IN s[2] * 16 + s[1]

(***************************************************************************)
(* hash.go: the compact token                                              *)
(***************************************************************************)

\* A trim that stops one byte too late: the trailing zero bytes and the
\* byte in front of them.
RECURSIVE TrimRightZerosGreedy(_)
TrimRightZerosGreedy(b) ==
    IF Len(b) > 0 /\ b[Len(b)] = 0
    THEN TrimRightZerosGreedy(SubSeq(b, 1, Len(b) - 1))
    ELSE SubSeq(b, 1, Len(b) - 1)

\* bytes.TrimRightFunc(b, r == 0): drop every trailing zero byte.
RECURSIVE TrimRightZeros(_)
TrimRightZeros(b) ==
    IF Len(b) > 0 /\ b[Len(b)] = 0
    THEN TrimRightZeros(SubSeq(b, 1, Len(b) - 1))
    ELSE b

\* hashGetLen that reads the field nx in place of len.
hashGetLenNx(h) == IF h = <<>> THEN 0 ELSE h[1].nx

\* A hash.Hash variable is <<>> (nil) or <<d>> (a pointer to the digest d).
hashGetLen(h) == IF h = <<>> THEN 0 ELSE h[1].len

\* The value behind a hash.Hash has the fields and the MarshalBinary method
\* that reflection looks up by name.
Recognized(d) == DOMAIN d = {"h", "x", "nx", "len"}

\* hashMarshalBinary that returns [checksum, len, h, x] at a fixed length:
\* the trimmed bytes, then zeros up to 108 bytes.
hashMarshalBinaryPadded(h) ==
    IF h = <<>> THEN [b |-> <<>>, isNil |-> TRUE, err |-> NoErr]
    ELSE IF ~Recognized(h[1]) THEN [b |-> <<>>, isNil |-> FALSE, err |-> "panic"]
    ELSE LET b  == MarshalBinary(h[1])
             b2 == TrimRightZeros(Slice(b, 4 + 96, Len(b)) \o Slice(b, 4, 4 + 96))
         IN  [b     |-> Copy(Zeros(expectedMarshaledSize), <<fletcher8(b2)>> \o b2),
              isNil |-> FALSE,
              err   |-> NoErr]

\* hashMarshalBinary without the reorganisation: MarshalBinary's bytes.
hashMarshalBinaryFull(h) ==
    IF h = <<>> THEN [b |-> <<>>, isNil |-> TRUE, err |-> NoErr]
    ELSE IF ~Recognized(h[1]) THEN [b |-> <<>>, isNil |-> FALSE, err |-> "panic"]
    ELSE [b |-> MarshalBinary(h[1]), isNil |-> FALSE, err |-> NoErr]

\* [b, isNil, err]; err = "panic" is the index-out-of-range panic of b2[0]
\* on an empty slice, or reflect's panic in Call on the zero Value that
\* MethodByName returns when there is no such method.
hashMarshalBinary(h) ==
    IF h = <<>> THEN [b |-> <<>>, isNil |-> TRUE, err |-> NoErr]
    ELSE IF ~Recognized(h[1]) THEN [b |-> <<>>, isNil |-> FALSE, err |-> "panic"]
    ELSE LET b == MarshalBinary(h[1]) IN
         IF Len(b) = expectedMarshaledSize /\ Slice(b, 0, 4) = magic256
         THEN LET b2 == TrimRightZeros(
                            <<0>> \o Slice(b, 4 + 96, Len(b)) \o Slice(b, 4, 4 + 96))
              IN  IF Len(b2) = 0
                  THEN [b |-> <<>>, isNil |-> FALSE, err |-> "panic"]
                  ELSE [b     |-> <<fletcher8(Tail(b2))>> \o Tail(b2),
                        isNil |-> FALSE,
                        err   |-> NoErr]
         ELSE [b |-> b, isNil |-> FALSE, err |-> NoErr]

\* hashUnmarshalBinary that does not compare the checksum byte.
hashUnmarshalBinaryUnchecked(d, b) ==
    IF Len(b) # expectedMarshaledSize
    THEN IF Len(b) < 9 THEN [err |-> "panic", d |-> d]
         ELSE LET r  == Tail(b)
                  z  == Zeros(expectedMarshaledSize)
                  m  == Copy(z, magic256)
                  hx == Copy(Slice(m, 4, 4 + 96), Slice(r, 8, Len(r)))
                  ln == Copy(Slice(m, 4 + 96, Len(m)), Slice(r, 0, 8))
              IN  UnmarshalBinary(d, Slice(m, 0, 4) \o hx \o ln)
    ELSE UnmarshalBinary(d, b)

\* [err, d]: the accumulator after the call.  err = "panic" is a slice or
\* index out of range at b[0] or b[8:].
hashUnmarshalBinary(d, b) ==
    IF Len(b) # expectedMarshaledSize
    THEN IF Len(b) = 0 THEN [err |-> "panic", d |-> d]
         ELSE LET checksum == b[1]
                  r        == Tail(b)
              IN  IF checksum # fletcher8(r)
                  THEN [err |-> "checksum error", d |-> d]
                  ELSE IF Len(r) < 8 THEN [err |-> "panic", d |-> d]
                  ELSE LET z  == Zeros(expectedMarshaledSize)
                           m  == Copy(z, magic256)
                           hx == Copy(Slice(m, 4, 4 + 96), Slice(r, 8, Len(r)))
                           ln == Copy(Slice(m, 4 + 96, Len(m)), Slice(r, 0, 8))
                       IN  UnmarshalBinary(d, Slice(m, 0, 4) \o hx \o ln)
    ELSE UnmarshalBinary(d, b)

(***************************************************************************)
(* The accumulator.  sha256.New, Write and Sum belong to the hash library  *)
(* main() drives through io.Copy; the fields are those of the digest       *)
(* struct.  The compression function is abstracted: block folds every byte *)
(* of every 64-byte chunk, in order, into all eight chaining words.        *)
(***************************************************************************)

InitWords ==
    << [hi |-> 27145, lo |-> 58983], [hi |-> 47975, lo |-> 44677],
       [hi |-> 15470, lo |-> 62322], [hi |-> 42319, lo |-> 62778],
       [hi |-> 20750, lo |-> 21119], [hi |-> 39685, lo |-> 26764],
       [hi |-> 8067,  lo |-> 55723], [hi |-> 23520, lo |-> 52505] >>

New == [h |-> InitWords, x |-> Zeros(chunk), nx |-> 0, len |-> 0]

\* The bytes c[lo .. hi] of a chunk, each weighted by its place in the chunk.
RECURSIVE FoldBytes(_, _, _)
FoldBytes(c, lo, hi) ==
    IF lo = hi THEN (lo * (c[lo] + 1)) % 65536
    ELSE LET mid == (lo + hi) \div 2
         IN  (FoldBytes(c, lo, mid) + FoldBytes(c, mid + 1, hi)) % 65536

\* One chaining word after a chunk whose fold is v: it depends on the word,
\* on its neighbour and on v.
mixWord(hh, i, v) ==
    [hi |-> (hh[i].hi + hh[(i % 8) + 1].lo + v * i) % 65536,
     lo |-> (hh[i].lo + 31 * hh[i].hi + v + i) % 65536]

blockOne(hh, p, o) ==
    LET v == FoldBytes(Slice(p, o, o + chunk), 1, chunk)
    IN  << mixWord(hh, 1, v), mixWord(hh, 2, v), mixWord(hh, 3, v),
           mixWord(hh, 4, v), mixWord(hh, 5, v), mixWord(hh, 6, v),
           mixWord(hh, 7, v), mixWord(hh, 8, v) >>

\* block(d, p): "for len(p) >= chunk { one chunk; p = p[chunk:] }", at most k
\* times, from the state st = [h, o]: the chaining words and the offset in p
\* of the next chunk.  The first half of the iterations, then the second.
RECURSIVE blockLoop(_, _, _)
blockLoop(st, p, k) ==
    IF k = 0 \/ Len(p) - st.o < chunk THEN st
    ELSE IF k = 1
    THEN [h |-> blockOne(st.h, p, st.o), o |-> st.o + chunk]
    ELSE blockLoop(blockLoop(st, p, k \div 2), p, k - (k \div 2))

block(hh, p) == blockLoop([h |-> hh, o |-> 0], p, Len(p) \div chunk).h

\* digest.Write, statement by statement.  Each step takes and returns
\* [d, p]: the digest and the bytes of p not yet consumed.
\*   d.len += uint64(nn)
WriteLen(w) == [d |-> [w.d EXCEPT !.len = @ + Len(w.p)], p |-> w.p]

\*   if d.nx > 0 { n := copy(d.x[d.nx:], p); d.nx += n;
\*                 if d.nx == chunk { block(d, d.x[:]); d.nx = 0 }; p = p[n:] }
WriteBuf(w) ==
    IF w.d.nx > 0
    THEN LET n  == Min(chunk - w.d.nx, Len(w.p))
             x1 == Slice(w.d.x, 0, w.d.nx)
                     \o Copy(Slice(w.d.x, w.d.nx, chunk), w.p)
             n1 == w.d.nx + n
         IN  [d |-> IF n1 = chunk
                    THEN [w.d EXCEPT !.x = x1, !.h = block(w.d.h, x1), !.nx = 0]
                    ELSE [w.d EXCEPT !.x = x1, !.nx = n1],
              p |-> Slice(w.p, n, Len(w.p))]
    ELSE w

\* WriteRest that copies the rest of p into d.x and leaves d.nx alone.
WriteRestKeepsNx(w) ==
    LET n  == IF Len(w.p) >= chunk THEN Len(w.p) - (Len(w.p) % chunk) ELSE 0
        h1 == IF n > 0 THEN block(w.d.h, Slice(w.p, 0, n)) ELSE w.d.h
        p1 == Slice(w.p, n, Len(w.p))
    IN  [d |-> IF Len(p1) > 0
               THEN [w.d EXCEPT !.h = h1, !.x = Copy(@, p1)]
               ELSE [w.d EXCEPT !.h = h1],
         p |-> <<>>]

\*   if len(p) >= chunk { n := len(p) &^ (chunk - 1); block(d, p[:n]); p = p[n:] }
\*   if len(p) > 0 { d.nx = copy(d.x[:], p) }
WriteRest(w) ==
    LET n  == IF Len(w.p) >= chunk THEN Len(w.p) - (Len(w.p) % chunk) ELSE 0
        h1 == IF n > 0 THEN block(w.d.h, Slice(w.p, 0, n)) ELSE w.d.h
        p1 == Slice(w.p, n, Len(w.p))
    IN  [d |-> IF Len(p1) > 0
               THEN [w.d EXCEPT !.h = h1, !.x = Copy(@, p1), !.nx = Len(p1)]
               ELSE [w.d EXCEPT !.h = h1],
         p |-> <<>>]

Write(d, p) == WriteRest(WriteBuf(WriteLen([d |-> d, p |-> p]))).d

\* digest.checkSum on a copy of d: pad, append the bit length, emit h.
checkSum(d) ==
    LET pad == IF d.len % 64 < 56 THEN 56 - (d.len % 64) ELSE 64 + 56 - (d.len % 64)
        d1  == Write(d, <<128>> \o Zeros(pad - 1))
        d2  == Write(d1, appendUint64(<<>>, d.len * 8))
    IN  AppendWords(<<>>, d2.h, 1)

\* hex.EncodeToString: two hex digits per byte (a digit is its value 0..15).
EncodeToString(b) ==
    SubSeq([i \in 1..(2 * Len(b)) |->
              IF i % 2 = 1 THEN b[(i + 1) \div 2] \div 16 ELSE b[i \div 2] % 16],
           1, 2 * Len(b))

Sum(h) == EncodeToString(checkSum(h[1]))

(***************************************************************************)
(* base64.RawStdEncoding: a character is its 6-bit value (its index in the *)
(* alphabet), so a token's text is a sequence over 0..63.                  *)
(***************************************************************************)

\* 2^n for the shifts below.
Pow2(n) == IF n = 0 THEN 1 ELSE IF n = 2 THEN 4 ELSE IF n = 4 THEN 16
           ELSE IF n = 6 THEN 64 ELSE IF n = 8 THEN 256 ELSE 1024

ByteAt(b, k) == IF k <= Len(b) THEN b[k] ELSE 0

\* Character j of the text: the six bits of b from bit 6 * (j - 1) on, the
\* last character padded with zero bits; no '=' is appended.
EncodeBase64(b) ==
    LET n == (Len(b) * 8 + 5) \div 6
    IN  SubSeq([j \in 1..n |->
                  LET bit == 6 * (j - 1)
                      k   == (bit \div 8) + 1
                  IN  ((ByteAt(b, k) * 256 + ByteAt(b, k + 1))
                          \div Pow2(10 - (bit % 8))) % 64],
               1, n)

\* Byte i of the data: the eight bits of t from bit 8 * (i - 1) on; bits
\* left over after the last whole byte are ignored.
DecodeString(t) ==
    IF Len(t) % 4 = 1
    THEN [err |-> "illegal base64 data", b |-> <<>>]
    ELSE LET n == (Len(t) * 6) \div 8
         IN  [err |-> NoErr,
              b   |-> SubSeq([i \in 1..n |->
                                LET bit == 8 * (i - 1)
                                    k   == (bit \div 6) + 1
                                IN  ((t[k] * 64 + t[k + 1])
                                        \div Pow2(4 - (bit % 6))) % 256],
                             1, n)]

(***************************************************************************)
(* The objects of the store.  An object is its number; its content is a    *)
(* fixed byte string with zero bytes at every fifth offset.  The stream    *)
(* delivers it in pieces that end at one of the CutPoints or at its end.   *)
(***************************************************************************)

ObjLen1 == 4100
ObjLen2 == 66
ObjLen3 == 2
Objects == {1, 2, 3, 4, 5, 6}
ObjLen(o) == IF o = 1 THEN ObjLen1 ELSE IF o = 2 THEN ObjLen2 ELSE ObjLen3

\* The byte at offset i - 1 of object o.
ObjByte(o, i) == IF i % 5 = 0 THEN 0 ELSE (i * 7 + o * 13) % 256

\* The bytes at offsets from .. to-1 of object o.
ObjBytes(o, from, to) ==
    SubSeq([j \in 1..(to - from) |-> ObjByte(o, from + j)], 1, to - from)

\* A character of a checksum text is a number: 0..15 are the digits
\* '0'..'9' and 'a'..'f' that hex.EncodeToString writes, 26..31 are 'A'..'F'.
ToLowerChar(c) == IF c \in 26..31 THEN c - 16 ELSE c
ToUpperChar(c) == IF c \in 10..15 THEN c + 16 ELSE c
ToUpper(t) ==
    LET u == t IN SubSeq([i \in 1..Len(u) |-> ToUpperChar(u[i])], 1, Len(u))

\* == on strings in place of strings.EqualFold.
EqualExact(t, u) == t = u

\* strings.EqualFold on checksum texts.
EqualFold(t, u) ==
    /\ Len(t) = Len(u)
    /\ \A i \in 1..Len(t) : ToLowerChar(t[i]) = ToLowerChar(u[i])

\* The checksum of object o, as its owner computed it, and a text of the
\* same length (64 hex digits) that is a checksum of none of the objects.
OwnerSum(o) == Sum(<<Write(New, ObjBytes(o, 0, ObjLen(o)))>>)
OtherSum(o) == SubSeq([i \in 1..64 |-> (i + o) % 16], 1, 64)

\* obj.Metadata["sha256sum"], "" when the object has no such entry.
Metadata(o) ==
    IF o = 3 THEN ToUpper(OwnerSum(o))
    ELSE IF o = 4 THEN OtherSum(o)
    ELSE <<>>

\* The object's tags, as GetObjectTagging returns them.
TagSet(o) ==
    IF o = 2 THEN <<[Key |-> "owner", Value |-> OtherSum(o)],
                    [Key |-> "sha256sum", Value |-> ToUpper(OwnerSum(o))]>>
    ELSE IF o = 3 THEN <<[Key |-> "sha256sum", Value |-> OtherSum(o)]>>
    ELSE IF o = 4 THEN <<[Key |-> "sha256sum", Value |-> OwnerSum(o)]>>
    ELSE IF o = 5 THEN <<[Key |-> "sha256sum", Value |-> OtherSum(o)]>>
    ELSE IF o = 6 THEN <<[Key |-> "owner", Value |-> OwnerSum(o)]>>
    ELSE <<>>

\* obj.TagCount
TagCount(o) == Len(TagSet(o))

\* The offsets at which Read may stop short of the end of the object.
CutPoints(o) ==
    IF o = 1 THEN {1, 63, 64, 65, 4095, 4096}
    ELSE IF o = 2 THEN {1, 64, 65}
    ELSE {1}

\* How many times the program is run, the first run and the resumed ones:
\* MaxRuns for the large object, MaxRunsSmall for the others.
MaxRuns == 2
MaxRunsSmall == 3

VARIABLES
    run,          \* number of this invocation of the program
    args,         \* flag.Args(): the objects named on the command line
    resume,       \* -resume: the text of the token, <<>> when absent
    paranoid,     \* paranoidInterval != 0
    pc,           \* where the main goroutine is
    exit,         \* [code, why] once the process has ended, why = "none" before
    h,            \* var h hash.Hash: <<>> is nil, <<d>> a digest
    position,     \* var position uint64 of main
    idx,          \* the loop index i, 1-based
    arg,          \* var arg string: the object being processed, 0 before the loop
    objLength,    \* var objLength uint64
    copying,      \* copying
    body,         \* obj.Body: [obj, off, end], off the offset of the next byte
    wp,           \* the Write in progress: p is the bytes [from, to) of the object
    copyErr,      \* what io.Copy returned
    ctxDone,      \* ctx has been cancelled
    sigChan,      \* number of signals waiting in signalChannel
    interrupted,  \* interrupted of the signal goroutine
    opc,          \* where the paranoid goroutine is
    lastPosition, \* lastPosition of the paranoid goroutine
    oposition,    \* position of the paranoid goroutine
    tokens,       \* the last resume command each goroutine printed:
                  \* [by, position, objLength, arg, token]
    sums,         \* digests printed: [arg, sum]
    reports,      \* comparisons printed: [arg, out, source]
    hist,         \* history: [restores, fetches, cancels, startLen]
    cx            \* the codec harness of SpecCodec

vars == <<run, args, resume, paranoid, pc, exit, h, position, idx, arg,
          objLength, copying, body, wp, copyErr, ctxDone, sigChan, interrupted,
          opc, lastPosition, oposition, tokens, sums, reports, hist, cx>>

mainVars == <<pc, exit, h, position, idx, arg, objLength, copying, body, wp,
              copyErr, tokens, sums, reports, hist>>
inputVars == <<run, args, resume, paranoid>>
sigVars == <<ctxDone, sigChan, interrupted>>
obsVars == <<opc, lastPosition, oposition>>

signalChannelSize == 1

NoBody == [obj |-> 0, off |-> 0, end |-> 0]
NoWrite == [from |-> 0, to |-> 0]
NoExit == [code |-> 0, why |-> "none"]
\* hobj is the object the accumulator in h was created or restored for.
NoHist == [restores |-> 0, fetches |-> <<>>, cancels |-> 0, startLen |-> 0,
           hobj |-> 0]
CxIdle == [phase |-> "idle", d |-> New, b |-> <<>>, flipped |-> FALSE,
           r |-> [err |-> NoErr, d |-> New]]

Alive == exit.why = "none"

\* os.Exit(code) from the main goroutine.
Exit(code, why) ==
    /\ exit' = [code |-> code, why |-> why]
    /\ pc' = "exit"

\* The process as the operating system starts it.
Start(r, a, t, par) ==
    /\ run = r /\ args = a /\ resume = t /\ paranoid = par
    /\ pc = "start" /\ exit = NoExit
    /\ h = <<>> /\ position = 0 /\ idx = 0 /\ arg = 0 /\ objLength = 0
    /\ copying = FALSE /\ body = NoBody /\ wp = NoWrite /\ copyErr = NoErr
    /\ ctxDone = FALSE /\ sigChan = 0 /\ interrupted = FALSE
    /\ opc = "sleep" /\ lastPosition = 0 /\ oposition = 0
    /\ tokens = {} /\ sums = {} /\ reports = {} /\ hist = NoHist

\* b with bit k of byte i (1-indexed) inverted.
FlipBit(b, i, k) ==
    LET w == IF k = 0 THEN 1 ELSE IF k = 1 THEN 2 ELSE IF k = 2 THEN 4
             ELSE IF k = 3 THEN 8 ELSE IF k = 4 THEN 16 ELSE IF k = 5 THEN 32
             ELSE IF k = 6 THEN 64 ELSE 128
        v == IF (b[i] \div w) % 2 = 1 THEN b[i] - w ELSE b[i] + w
    IN  SubSeq(b, 1, i - 1) \o <<v>> \o SubSeq(b, i + 1, Len(b))

\* Texts given to --resume that no run printed: a token with one bit
\* flipped, a full-size state with another magic, the token "AA" (the one
\* byte 0) and a text that is not base64.
BadTokens ==
    { EncodeBase64(FlipBit(hashMarshalBinary(<<Write(New, ObjBytes(2, 0, 5))>>).b, 3, 0)),
      EncodeBase64(<<115, 104, 97, 2>> \o ObjBytes(2, 0, 96) \o <<0, 0, 0, 0, 0, 0, 0, 5>>),
      EncodeBase64(<<0>>),
      <<1>> }

\* The text a run over object 3 prints when it is interrupted after 1 byte.
GoodToken == EncodeBase64(hashMarshalBinary(<<Write(New, ObjBytes(3, 0, 1))>>).b)

\* The command lines of the first run: the large object alone, the small
\* ones with -paranoid, three small ones that differ in metadata and tags,
\* a small one with a --resume text of BadTokens, and two objects with a
\* --resume text that decodes.
CommandLines ==
    { [args |-> <<1>>,    paranoid |-> FALSE, resume |-> <<>>],
      [args |-> <<2>>,    paranoid |-> TRUE,  resume |-> <<>>],
      [args |-> <<3, 2>>, paranoid |-> TRUE,  resume |-> <<>>],
      [args |-> <<4, 5, 6>>, paranoid |-> FALSE, resume |-> <<>>],
      [args |-> <<3, 2>>, paranoid |-> FALSE, resume |-> GoodToken] }
        \cup { [args |-> <<2>>, paranoid |-> FALSE, resume |-> t] : t \in BadTokens }

Init ==
    /\ cx = CxIdle
    /\ \E c \in CommandLines : Start(1, c.args, c.resume, c.paranoid)

(***************************************************************************)
(* The main goroutine                                                      *)
(***************************************************************************)

\* Decode without the test of flag.NArg().
DecodeAnyArgs ==
    /\ Alive /\ pc = "start"
    /\ UNCHANGED <<inputVars, sigVars, cx, idx, arg, objLength, copying, body,
                   wp, copyErr, tokens, sums, reports, opc, oposition>>
    /\ IF resume = <<>>
       THEN /\ pc' = "loop"
            /\ UNCHANGED <<exit, h, position, hist, lastPosition>>
       ELSE LET state == DecodeString(resume) IN
            IF state.err # NoErr
            THEN /\ Exit(1, "decode")
                 /\ UNCHANGED <<h, position, hist, lastPosition>>
            ELSE LET r == hashUnmarshalBinary(New, state.b) IN
                 IF r.err = "panic"
                 THEN /\ Exit(2, "panic")
                      /\ h' = <<New>>
                      /\ UNCHANGED <<position, hist, lastPosition>>
                 ELSE IF r.err # NoErr
                 THEN /\ Exit(1, "decode")
                      /\ h' = <<r.d>>
                      /\ UNCHANGED <<position, hist, lastPosition>>
                 ELSE /\ h' = <<r.d>>
                      /\ position' = hashGetLen(<<r.d>>)
                      /\ lastPosition' = hashGetLen(<<r.d>>)
                      /\ hist' = [hist EXCEPT !.restores = @ + 1,
                                              !.startLen = r.d.len,
                                              !.hobj = args[1]]
                      /\ pc' = "loop"
                      /\ UNCHANGED exit

\* "Decode the resume state" and the start of the two goroutines.
Decode ==
    /\ Alive /\ pc = "start"
    /\ UNCHANGED <<inputVars, sigVars, cx, idx, arg, objLength, copying, body,
                   wp, copyErr, tokens, sums, reports, opc, oposition>>
    /\ IF resume = <<>>
       THEN /\ pc' = "loop"
            /\ UNCHANGED <<exit, h, position, hist, lastPosition>>
       ELSE IF Len(args) > 1
       THEN /\ Exit(1, "usage")
            /\ UNCHANGED <<h, position, hist, lastPosition>>
       ELSE LET state == DecodeString(resume) IN
            IF state.err # NoErr
            THEN /\ Exit(1, "decode")
                 /\ UNCHANGED <<h, position, hist, lastPosition>>
            ELSE LET r == hashUnmarshalBinary(New, state.b) IN
                 IF r.err = "panic"
                 THEN /\ Exit(2, "panic")
                      /\ h' = <<New>>
                      /\ UNCHANGED <<position, hist, lastPosition>>
                 ELSE IF r.err # NoErr
                 THEN /\ Exit(1, "decode")
                      /\ h' = <<r.d>>
                      /\ UNCHANGED <<position, hist, lastPosition>>
                 ELSE /\ h' = <<r.d>>
                      /\ position' = hashGetLen(<<r.d>>)
                      /\ lastPosition' = hashGetLen(<<r.d>>)
                      /\ hist' = [hist EXCEPT !.restores = @ + 1,
                                              !.startLen = r.d.len,
                                              !.hobj = args[1]]
                      /\ pc' = "loop"
                      /\ UNCHANGED exit

\* The head of the loop over the arguments, and the bucket location lookup
\* (made with ctx, and only for a bucket not looked up before).
LoopHead ==
    /\ Alive /\ pc = "loop"
    /\ idx' = idx + 1
    /\ arg' = args[idx + 1]
    /\ \/ pc' = "fetch" /\ UNCHANGED exit
       \/ Exit(1, "error")
    /\ UNCHANGED <<inputVars, sigVars, obsVars, cx, h, position, objLength,
                   copying, body, wp, copyErr, tokens, sums, reports, hist>>

\* A request without a Range header.
RangeStartZero(pos) == 0

\* input.Range, as the store reads it: the offset of the first byte asked for.
RangeStart(pos) == IF pos # 0 THEN pos ELSE 0

\* The store can answer the request: there is no Range header, or the first
\* byte asked for exists (otherwise the answer is 416 InvalidRange).
Satisfiable(o, pos) == pos = 0 \/ RangeStart(pos) < ObjLen(o)

\* Fetch that asks again (up to three requests) when GetObject failed.
FetchRetries ==
    /\ Alive /\ pc = "fetch"
    /\ hist' = [hist EXCEPT !.fetches = Append(@, [arg |-> arg,
                                                   from |-> RangeStart(position)])]
    /\ \/ /\ ~ctxDone
          /\ Satisfiable(arg, position)
          /\ body' = [obj |-> arg, off |-> RangeStart(position), end |-> ObjLen(arg)]
          /\ objLength' = position + (ObjLen(arg) - RangeStart(position))
          /\ pc' = "hash"
          /\ UNCHANGED exit
       \/ /\ IF Len(hist.fetches) < 2
             THEN UNCHANGED <<pc, exit>>
             ELSE Exit(1, "error")
          /\ UNCHANGED <<body, objLength>>
    /\ UNCHANGED <<inputVars, sigVars, obsVars, cx, h, position, idx, arg,
                   copying, wp, copyErr, tokens, sums, reports>>

\* regionalClient.GetObject(ctx, input) and objLength.
Fetch ==
    /\ Alive /\ pc = "fetch"
    /\ hist' = [hist EXCEPT !.fetches = Append(@, [arg |-> arg,
                                                   from |-> RangeStart(position)])]
    /\ \/ /\ ~ctxDone
          /\ Satisfiable(arg, position)
          /\ body' = [obj |-> arg, off |-> RangeStart(position), end |-> ObjLen(arg)]
          /\ objLength' = position + (ObjLen(arg) - RangeStart(position))
          /\ pc' = "hash"
          /\ UNCHANGED exit
       \/ /\ Exit(1, "error")
          /\ UNCHANGED <<body, objLength>>
    /\ UNCHANGED <<inputVars, sigVars, obsVars, cx, h, position, idx, arg,
                   copying, wp, copyErr, tokens, sums, reports>>

\* NewHash that creates the accumulator for the first object only.
NewHashOnce ==
    /\ Alive /\ pc = "hash"
    /\ h' = IF h = <<>> THEN <<New>> ELSE h
    /\ pc' = "flag"
    /\ UNCHANGED <<inputVars, sigVars, obsVars, cx, exit, position, idx, arg,
                   objLength, copying, body, wp, copyErr, tokens, sums, reports, hist>>

\* NewHash that decodes the token again, after the fetch.
NewHashRestores ==
    /\ Alive /\ pc = "hash"
    /\ IF resume = <<>>
       THEN h' = <<New>> /\ UNCHANGED hist
       ELSE /\ h' = <<hashUnmarshalBinary(New, DecodeString(resume).b).d>>
            /\ hist' = [hist EXCEPT !.restores = @ + 1]
    /\ pc' = "flag"
    /\ UNCHANGED <<inputVars, sigVars, obsVars, cx, exit, position, idx, arg,
                   objLength, copying, body, wp, copyErr, tokens, sums, reports>>

\* copying = true before h is assigned.
NewHashFlagFirst ==
    /\ Alive /\ pc = "hash"
    /\ copying' = TRUE
    /\ pc' = "flag"
    /\ UNCHANGED <<inputVars, sigVars, obsVars, cx, exit, h, position, idx,
                   arg, objLength, body, wp, copyErr, tokens, sums, reports,
                   hist>>

\* if resume == "" { h = sha256.New() }
NewHash ==
    /\ Alive /\ pc = "hash"
    /\ h' = IF resume = <<>> THEN <<New>> ELSE h
    /\ hist' = IF resume = <<>> THEN [hist EXCEPT !.hobj = arg] ELSE hist
    /\ pc' = "flag"
    /\ UNCHANGED <<inputVars, sigVars, obsVars, cx, exit, position, idx, arg,
                   objLength, copying, body, wp, copyErr, tokens, sums, reports>>

\* copying = true
SetCopying ==
    /\ Alive /\ pc = "flag"
    /\ copying' = TRUE
    /\ pc' = "read"
    /\ UNCHANGED <<inputVars, sigVars, obsVars, cx, exit, h, position, idx,
                   arg, objLength, body, wp, copyErr, tokens, sums, reports,
                   hist>>

\* io.Copy: one Read of obj.Body.
ReadData ==
    /\ Alive /\ pc = "read"
    /\ \E q \in (CutPoints(body.obj) \cup {body.end}) :
          /\ body.off < q /\ q <= body.end
          /\ wp' = [from |-> body.off, to |-> q]
          /\ body' = [body EXCEPT !.off = q]
    /\ pc' = "wlen"
    /\ UNCHANGED <<inputVars, sigVars, obsVars, cx, exit, h, position, idx,
                   arg, objLength, copying, copyErr, tokens, sums, reports, hist>>

ReadEnd ==
    /\ Alive /\ pc = "read"
    /\ \/ body.off = body.end /\ copyErr' = NoErr
       \/ copyErr' = "error"
       \/ ctxDone /\ copyErr' = "canceled"
    /\ pc' = "copied"
    /\ UNCHANGED <<inputVars, sigVars, obsVars, cx, exit, h, position, idx,
                   arg, objLength, copying, body, wp, tokens, sums, reports, hist>>

\* h.Write(p), one statement group at a time.
WriteStep ==
    /\ Alive /\ pc \in {"wlen", "wbuf", "wrest"}
    /\ LET w == [d |-> h[1], p |-> ObjBytes(body.obj, wp.from, wp.to)]
           r == IF pc = "wlen" THEN WriteLen(w)
                ELSE IF pc = "wbuf" THEN WriteBuf(w) ELSE WriteRest(w)
       IN  /\ h' = <<r.d>>
           /\ wp' = [wp EXCEPT !.from = wp.to - Len(r.p)]
    /\ pc' = IF pc = "wlen" THEN "wbuf" ELSE IF pc = "wbuf" THEN "wrest" ELSE "read"
    /\ UNCHANGED <<inputVars, sigVars, obsVars, cx, exit, position, idx, arg,
                   objLength, copying, body, copyErr, tokens, sums, reports, hist>>

\* copying = false
Copied ==
    /\ Alive /\ pc = "copied"
    /\ copying' = FALSE
    /\ pc' = "check"
    /\ UNCHANGED <<inputVars, sigVars, obsVars, cx, exit, h, position, idx,
                   arg, objLength, body, wp, copyErr, tokens, sums, reports, hist>>

\* The resume command as printed: the token's text and the object; "of" is
\* the object for which the accumulator behind the text was created.
ResumeCommand(by, pos, state) ==
    [by |-> by, position |-> pos, objLength |-> objLength, arg |-> arg,
     token |-> EncodeBase64(state), of |-> hist.hobj]

Printed(t) == {u \in tokens : u.by # t.by} \cup {t}

\* CheckErr that prints the state after a cancelled copy and goes on to the
\* sum instead of os.Exit(1).
CheckErrContinues ==
    /\ Alive /\ pc = "check"
    /\ IF copyErr = NoErr
       THEN /\ pc' = "sum"
            /\ UNCHANGED <<exit, tokens>>
       ELSE IF copyErr = "canceled"
       THEN /\ tokens' = Printed(ResumeCommand("abort", hashGetLen(h),
                                               hashMarshalBinary(h).b))
            /\ pc' = "sum"
            /\ UNCHANGED exit
       ELSE /\ Exit(1, "error")
            /\ UNCHANGED tokens
    /\ UNCHANGED <<inputVars, sigVars, obsVars, cx, h, position, idx, arg,
                   objLength, copying, body, wp, copyErr, sums, reports, hist>>

\* CheckErr that prints the state after any error of the copy.
CheckErrAlwaysToken ==
    /\ Alive /\ pc = "check"
    /\ IF copyErr = NoErr
       THEN /\ pc' = "sum"
            /\ UNCHANGED <<exit, tokens>>
       ELSE /\ tokens' = Printed(ResumeCommand("abort", hashGetLen(h),
                                               hashMarshalBinary(h).b))
            /\ Exit(1, IF copyErr = "canceled" THEN "abort" ELSE "error")
    /\ UNCHANGED <<inputVars, sigVars, obsVars, cx, h, position, idx, arg,
                   objLength, copying, body, wp, copyErr, sums, reports, hist>>

\* CheckErr that treats a cancelled copy like any other error.
CheckErrNoToken ==
    /\ Alive /\ pc = "check"
    /\ IF copyErr = NoErr
       THEN pc' = "sum" /\ UNCHANGED exit
       ELSE Exit(1, "error")
    /\ UNCHANGED <<inputVars, sigVars, obsVars, cx, h, position, idx, arg,
                   objLength, copying, body, wp, copyErr, tokens, sums, reports, hist>>

\* if err != nil { ... os.Exit(1) }
CheckErr ==
    /\ Alive /\ pc = "check"
    /\ IF copyErr = NoErr
       THEN /\ pc' = "sum"
            /\ UNCHANGED <<exit, tokens>>
       ELSE IF copyErr = "canceled"
       THEN LET pos   == hashGetLen(h)
                state == hashMarshalBinary(h)
            IN  IF state.err # NoErr
                THEN /\ Exit(IF state.err = "panic" THEN 2 ELSE 1, "marshal")
                     /\ UNCHANGED tokens
                ELSE /\ tokens' = Printed(ResumeCommand("abort", pos, state.b))
                     /\ Exit(1, "abort")
       ELSE /\ Exit(1, "error")
            /\ UNCHANGED tokens
    /\ UNCHANGED <<inputVars, sigVars, obsVars, cx, h, position, idx, arg,
                   objLength, copying, body, wp, copyErr, sums, reports, hist>>

\* "Print the sum"
PrintSum ==
    /\ Alive /\ pc = "sum"
    /\ sums' = sums \cup {[arg |-> arg, sum |-> Sum(h)]}
    /\ pc' = "compare"
    /\ UNCHANGED <<inputVars, sigVars, obsVars, cx, exit, h, position, idx,
                   arg, objLength, copying, body, wp, copyErr, tokens,
                   reports, hist>>

\* The first value of the tag 'sha256sum' in tags.TagSet, "" when there is
\* none.
RECURSIVE TagValue(_)
TagValue(ts) ==
    IF ts = <<>> THEN <<>>
    ELSE IF Head(ts).Key = "sha256sum" THEN Head(ts).Value
    ELSE TagValue(Tail(ts))

\* The comparison with the object's metadata or tag, and the end of the
\* loop body.  GetObjectTagging is called with ctx: it fails once ctx is
\* cancelled and may fail otherwise.
Compare ==
    /\ Alive /\ pc = "compare"
    /\ LET sum     == Sum(h)
           askTags == Metadata(arg) = <<>> /\ TagCount(arg) > 0
           tagSum  == IF askTags THEN TagValue(TagSet(arg)) ELSE <<>>
           objSum  == IF tagSum # <<>> THEN tagSum ELSE Metadata(arg)
           source  == IF tagSum # <<>> THEN "tag" ELSE "metadata"
           out     == IF objSum = <<>> THEN "absent"
                      ELSE IF EqualFold(sum, objSum) THEN "OK" ELSE "FAILED"
       IN  \/ /\ ~(askTags /\ ctxDone)
              /\ reports' = reports \cup
                                {[arg |-> arg, out |-> out, source |-> source]}
              /\ IF idx < Len(args)
                 THEN pc' = "loop" /\ UNCHANGED exit
                 ELSE pc' = "done" /\ exit' = [code |-> 0, why |-> "done"]
           \/ /\ askTags
              /\ Exit(1, "error")
              /\ UNCHANGED reports
    /\ UNCHANGED <<inputVars, sigVars, obsVars, cx, h, position, idx, arg,
                   objLength, copying, body, wp, copyErr, tokens, sums, hist>>

(***************************************************************************)
(* The signal goroutine                                                    *)
(***************************************************************************)

\* The user presses Ctrl-C; signal.Notify drops it when the channel is full.
Interrupt ==
    /\ Alive
    /\ sigChan' = IF sigChan < signalChannelSize THEN sigChan + 1 ELSE sigChan
    /\ UNCHANGED <<inputVars, mainVars, obsVars, cx, ctxDone, interrupted>>

\* HandleSignal that cancels again instead of exiting.
HandleSignalRepeats ==
    /\ Alive /\ sigChan > 0
    /\ sigChan' = sigChan - 1
    /\ interrupted' = TRUE
    /\ ctxDone' = TRUE
    /\ hist' = [hist EXCEPT !.cancels = Min(@ + 1, 2)]
    /\ UNCHANGED <<inputVars, obsVars, cx, exit, pc, h, position, idx, arg,
                   objLength, copying, body, wp, copyErr, tokens, sums, reports>>

\* One iteration of "for sig := range signalChannel".
HandleSignal ==
    /\ Alive /\ sigChan > 0
    /\ sigChan' = sigChan - 1
    /\ IF interrupted
       THEN /\ exit' = [code |-> 1, why |-> "signal"]
            /\ UNCHANGED <<interrupted, ctxDone, hist>>
       ELSE /\ interrupted' = TRUE
            /\ ctxDone' = TRUE
            /\ hist' = [hist EXCEPT !.cancels = @ + 1]
            /\ UNCHANGED exit
    /\ UNCHANGED <<inputVars, obsVars, cx, pc, h, position, idx, arg,
                   objLength, copying, body, wp, copyErr, tokens, sums, reports>>

(***************************************************************************)
(* The paranoid goroutine                                                  *)
(***************************************************************************)

\* Tick without "position == 0 || position == lastPosition".
TickAlways ==
    /\ Alive /\ paranoid /\ opc = "sleep"
    /\ copying
    /\ oposition' = hashGetLen(h)
    /\ lastPosition' = hashGetLen(h)
    /\ opc' = "marshal"
    /\ UNCHANGED <<inputVars, mainVars, sigVars, cx>>

\* After time.Sleep: the checks of copying and of the position.
Tick ==
    /\ Alive /\ paranoid /\ opc = "sleep"
    /\ copying
    /\ hashGetLen(h) # 0 /\ hashGetLen(h) # lastPosition
    /\ oposition' = hashGetLen(h)
    /\ lastPosition' = hashGetLen(h)
    /\ opc' = "marshal"
    /\ UNCHANGED <<inputVars, mainVars, sigVars, cx>>

\* Report that takes the state out of h and leaves h reset.
ReportResets ==
    /\ Alive /\ paranoid /\ opc = "marshal"
    /\ LET state == hashMarshalBinary(h) IN
       IF state.err # NoErr
       THEN /\ exit' = [code |-> IF state.err = "panic" THEN 2 ELSE 1,
                        why |-> "marshal"]
            /\ UNCHANGED tokens
       ELSE /\ tokens' = IF state.isNil THEN tokens
                         ELSE Printed(ResumeCommand("paranoid", oposition, state.b))
            /\ UNCHANGED exit
    /\ h' = IF h = <<>> THEN h ELSE <<New>>
    /\ opc' = "sleep"
    /\ UNCHANGED <<inputVars, sigVars, cx, lastPosition, oposition, pc,
                   position, idx, arg, objLength, copying, body, wp, copyErr,
                   sums, reports, hist>>

\* hashMarshalBinary(h) and the line printed.
Report ==
    /\ Alive /\ paranoid /\ opc = "marshal"
    /\ LET state == hashMarshalBinary(h) IN
       IF state.err # NoErr
       THEN /\ exit' = [code |-> IF state.err = "panic" THEN 2 ELSE 1,
                        why |-> "marshal"]
            /\ UNCHANGED tokens
       ELSE /\ tokens' = IF state.isNil THEN tokens
                         ELSE Printed(ResumeCommand("paranoid", oposition, state.b))
            /\ UNCHANGED exit
    /\ opc' = "sleep"
    /\ UNCHANGED <<inputVars, sigVars, cx, lastPosition, oposition, pc, h,
                   position, idx, arg, objLength, copying, body, wp, copyErr,
                   sums, reports, hist>>

(***************************************************************************)
(* The user runs the resume command an aborted run printed.                *)
(***************************************************************************)

Rerun ==
    /\ exit.why = "abort"
    /\ \E t \in tokens :
          /\ t.by = "abort"
          /\ run < (IF t.arg = 1 THEN MaxRuns ELSE MaxRunsSmall)
          /\ run' = run + 1 /\ args' = <<t.arg>> /\ resume' = t.token
    /\ pc' = "start" /\ exit' = NoExit
    /\ h' = <<>> /\ position' = 0 /\ idx' = 0 /\ arg' = 0 /\ objLength' = 0
    /\ copying' = FALSE /\ body' = NoBody /\ wp' = NoWrite /\ copyErr' = NoErr
    /\ ctxDone' = FALSE /\ sigChan' = 0 /\ interrupted' = FALSE
    /\ opc' = "sleep" /\ lastPosition' = 0 /\ oposition' = 0
    /\ tokens' = {} /\ sums' = {} /\ reports' = {} /\ hist' = NoHist
    /\ UNCHANGED <<paranoid, cx>>

Next ==
    \/ Decode \/ LoopHead \/ Fetch \/ NewHash \/ SetCopying \/ ReadData \/ ReadEnd
    \/ WriteStep \/ Copied \/ CheckErr \/ PrintSum \/ Compare
    \/ Interrupt \/ HandleSignal \/ Tick \/ Report \/ Rerun

Spec == Init /\ [][Next]_vars

(***************************************************************************)
(* The codec on its own: encode an accumulator state, carry the token as   *)
(* text, possibly with one bit flipped, and decode it into a fresh hash.   *)
(***************************************************************************)

\* A 64-byte chunk after which the last chaining word ends in two zero bytes.
ZeroTailChunk ==
    SubSeq([i \in 1..chunk |-> IF i = 31 THEN 1 ELSE IF i = 64 THEN 42 ELSE 0],
           1, chunk)

\* The byte strings whose accumulator states the codec is run on: prefixes
\* of the objects (some end in a zero byte) and the chunk above.
CodecInputs ==
    { ObjBytes(1, 0, k) : k \in {0, 1, 5, 63, 64, 65, 4095, 4096} }
        \cup { ObjBytes(2, 0, k) : k \in {60, 66} }
        \cup { ZeroTailChunk, ZeroTailChunk \o <<0>> }

CodecStates == { Write(New, p) : p \in CodecInputs }

CodecFrozen ==
    UNCHANGED <<run, args, resume, paranoid, pc, exit, h, position, idx, arg,
                objLength, copying, body, wp, copyErr, ctxDone, sigChan,
                interrupted, opc, lastPosition, oposition, tokens, sums, reports, hist>>

\* A compact input around the payload r: its checksum byte is the right one.
Sealed(r) == <<fletcher8(r)>> \o r

\* Byte strings handed to hashUnmarshalBinary that no hashMarshalBinary
\* call produced: the empty one, ones shorter than the checksum byte and the
\* eight bytes of len, ones of other sizes, and full-size ones with and
\* without the magic.
ForeignInputs ==
    { <<>>, <<0>>, <<7>>, Sealed(<<5>>), <<1, 5>>,
      Sealed(<<0, 0, 0, 0, 0, 0, 0>>), Sealed(<<0, 0, 0, 0, 0, 0, 0, 70>>),
      Sealed(<<0, 0, 0, 0, 0, 0, 0, 3, 9, 9, 9, 9, 1, 2>>),
      Sealed(<<0, 0, 0, 0, 0, 0, 0, 3, 9, 0>>),
      Sealed(<<0, 0, 0, 0, 0, 0, 1, 0>> \o ObjBytes(1, 0, 98)),
      Zeros(expectedMarshaledSize),
      <<115, 104, 97, 2>> \o Zeros(expectedMarshaledSize - 4),
      magic256 \o ObjBytes(2, 0, 96) \o <<0, 0, 0, 0, 0, 0, 0, 65>> }

\* A hash.Hash of another implementation: no field named len, no method
\* named MarshalBinary.
ForeignEngine == [crc |-> <<0, 0, 0, 0>>]

CodecInit ==
    /\ Start(0, <<>>, <<>>, FALSE)
    /\ \/ \E d \in CodecStates \cup {ForeignEngine} :
             cx = [CxIdle EXCEPT !.phase = "state", !.d = d]
       \/ \E b \in ForeignInputs : cx = [CxIdle EXCEPT !.phase = "input", !.b = b]

\* state, _ := hashMarshalBinary(h)
CodecEncode ==
    /\ cx.phase = "state"
    /\ LET m == hashMarshalBinary(<<cx.d>>) IN
       cx' = IF m.err # NoErr THEN [cx EXCEPT !.phase = "panic"]
             ELSE [cx EXCEPT !.phase = "token", !.b = m.b]
    /\ CodecFrozen

\* One bit of the token changes on the way.
CodecFlip ==
    /\ cx.phase = "token" /\ ~cx.flipped
    /\ \E i \in 1..Len(cx.b), k \in 0..7 :
          cx' = [cx EXCEPT !.b = FlipBit(cx.b, i, k), !.flipped = TRUE]
    /\ CodecFrozen

\* The token as text, then DecodeString and hashUnmarshalBinary(&h, state)
\* on h = sha256.New().
CodecDecode ==
    /\ cx.phase = "token"
    /\ LET state == DecodeString(EncodeBase64(cx.b)) IN
       cx' = [cx EXCEPT !.phase = "decoded",
                        !.r = IF state.err # NoErr THEN [err |-> state.err, d |-> New]
                              ELSE hashUnmarshalBinary(New, state.b)]
    /\ CodecFrozen

\* hashUnmarshalBinary(&h, b) on h = sha256.New() and a foreign input.
CodecDecodeInput ==
    /\ cx.phase = "input"
    /\ cx' = [cx EXCEPT !.phase = "parsed", !.r = hashUnmarshalBinary(New, cx.b)]
    /\ CodecFrozen

\* What io.Copy writes next into a restored accumulator.
IngestInputs == { ObjBytes(2, 0, k) : k \in {1, 58, 64, 66} }

\* h.Write(p) on the accumulator hashUnmarshalBinary restored.
CodecIngest ==
    /\ cx.phase \in {"decoded", "parsed"}
    /\ cx.r.err = NoErr
    /\ \E p \in IngestInputs :
          cx' = [cx EXCEPT !.phase = "ingested", !.r.d = Write(cx.r.d, p)]
    /\ CodecFrozen

CodecNext ==
    CodecEncode \/ CodecFlip \/ CodecDecode \/ CodecDecodeInput \/ CodecIngest

SpecCodec == CodecInit /\ [][CodecNext]_vars

(***************************************************************************)
(* Properties                                                              *)
(***************************************************************************)

\* Two accumulator states agree in chaining, buffer (its valid bytes),
\* bufferLen and totalLen.
StateEq(a, b) ==
    /\ a.h = b.h /\ a.nx = b.nx /\ a.len = b.len
    /\ SubSeq(a.x, 1, a.nx) = SubSeq(b.x, 1, b.nx)

\* The digest of object o hashed in one pass, with one Write.
RefSum(o) == Sum(<<Write(New, ObjBytes(o, 0, ObjLen(o)))>>)

\* The accumulator a printed resume command restores.
Captured(t) == hashUnmarshalBinary(New, DecodeString(t.token).b)

AbortTokens == {t \in tokens : t.by = "abort"}

\* C1: every digest a run prints, whether the run started fresh or from
\* the token an interrupted run printed after k bytes (k one of 0, 1, 63,
\* 64, 65, 4095, 4096 for the large object), is the digest of one
\* uninterrupted pass over the whole object.
C1_ResumeEquivalence == \A s \in sums : s.sum = RefSum(s.arg)

\* A run resumed at byte 4095 has printed its digest.
C1_Witness == run = 2 /\ hist.startLen = 4095 /\ sums # {}

\* C2: every printed token, from the abort path or from the paranoid
\* goroutine, decodes to the state of a from-scratch pass over the first
\* totalLen bytes of its object: no capture mixes fields from before and
\* after a Write.
C2_AtomicCapture ==
    \A t \in tokens :
        LET r == Captured(t) IN
        r.err = NoErr /\ StateEq(r.d, Write(New, ObjBytes(t.arg, 0, r.d.len)))

\* C3: decoding the token of an accumulator state, carried as text, succeeds
\* and gives back chaining, buffer, bufferLen and totalLen.
C3_RoundTrip ==
    (cx.phase = "decoded" /\ ~cx.flipped) =>
        /\ cx.r.err = NoErr
        /\ StateEq(cx.r.d, cx.d)
        /\ cx.r.d.nx = cx.r.d.len % chunk

\* A decoded state whose last chaining word ends in zero bytes and whose one
\* valid buffer byte is zero: all of them were trimmed from the token.
C3_Witness ==
    /\ cx.phase = "decoded" /\ ~cx.flipped
    /\ cx.d.h[8].lo = 0 /\ cx.d.nx = 1 /\ cx.d.x[1] = 0
    /\ Len(cx.b) = 39

\* C4: the abort path's token is printed only after a copy that ended with
\* the cancellation of an interrupt; a step that ends the run with any other
\* error prints no token.
C4_TokenOnlyOnInterrupt ==
    /\ [](/\ \A t \in AbortTokens :
                copyErr = "canceled" /\ interrupted /\ exit.why = "abort"
          /\ exit.why = "error" => AbortTokens = {})
    /\ [][(exit.why = "none" /\ exit'.why = "error") =>
             (tokens' = tokens /\ exit'.code = 1)]_vars

\* The stream failed in the middle of an object and the run ended without a
\* token.
C4_Witness ==
    /\ exit.why = "error" /\ copyErr = "error"
    /\ hashGetLen(h) = 64 /\ tokens = {}

C6_PositionMatchesToken ==
    \A t \in tokens : Captured(t).d.len = t.position

\* C7: the fetch is cancelled at most once in a run; the signal handled
\* while interrupted ends the process with status 1 and changes nothing
\* else, and nothing is printed after it.
C7_SecondSignalExits ==
    /\ [](hist.cancels <= 1)
    /\ [][(Alive /\ interrupted /\ sigChan' < sigChan) =>
             /\ exit' = [code |-> 1, why |-> "signal"]
             /\ tokens' = tokens /\ sums' = sums /\ hist' = hist
             /\ h' = h /\ pc' = pc]_vars
    /\ [][exit.why = "signal" => (tokens' = tokens /\ exit' = exit)]_vars

\* The second signal arrived during the copy.
C7_Witness == exit.why = "signal" /\ hist.cancels = 1 /\ copying

\* C8: the accumulator is restored at most once in a run, only from a
\* supplied token, and only at start-up: before any fetch and before
\* copying; the goroutines never restore.
C8_RestoreOnceBeforeFetch ==
    /\ [](/\ hist.restores <= 1
          /\ hist.restores = 1 => resume # <<>>
          /\ (resume # <<>> /\ hist.fetches # <<>>) => hist.restores = 1)
    /\ [][(run' = run /\ hist'.restores # hist.restores) =>
             /\ pc = "start" /\ resume # <<>>
             /\ hist.restores = 0 /\ hist.fetches = <<>>
             /\ h = <<>> /\ ~copying]_vars

\* A restored run is ingesting bytes.
C8_Witness ==
    /\ hist.restores = 1 /\ hist.startLen = 63
    /\ pc = "read" /\ hashGetLen(h) > 63

\* C9: every fetch asks for the bytes from the restored totalLen on (from 0
\* without a token), and whenever io.Copy reads, the stream is at the
\* accumulator's totalLen.
C9_FetchAtPosition ==
    /\ \A i \in DOMAIN hist.fetches : hist.fetches[i].from = hist.startLen
    /\ pc = "read" => body.off = hashGetLen(h)
    /\ pc = "hash" => body.off = position

\* The copy of a run resumed at byte 65 is about to read its first byte.
C9_Witness ==
    /\ run = 2 /\ hist.startLen = 65
    /\ pc = "read" /\ body.off = 65 /\ hashGetLen(h) = 65

\* C10: a compact token with one bit flipped, in the checksum byte or in
\* any byte after it, is refused with "checksum error" and the hash is left
\* as sha256.New() made it.
C10_BitFlipDetected ==
    (cx.phase = "decoded" /\ cx.flipped) =>
        (cx.r.err = "checksum error" /\ cx.r.d = New)

\* A flipped token over a 65-byte state was refused.
C10_Witness ==
    /\ cx.phase = "decoded" /\ cx.flipped
    /\ cx.d.len = 65 /\ cx.r.err = "checksum error"

\* C11: an input shorter than the checksum byte plus the eight bytes of
\* len, or a full-size input whose magic is not the recognized one, is
\* answered with an error: decode neither crashes on it nor accepts it.
C11_MalformedRejected ==
    (/\ cx.phase = "parsed"
     /\ \/ Len(cx.b) < 9
        \/ Len(cx.b) = expectedMarshaledSize /\ Slice(cx.b, 0, 4) # magic256)
        => cx.r.err \notin {NoErr, "panic"}

\* C12: capturing an accumulator that has not the recognized shape ends
\* with an error: it neither crashes nor yields a token.
C12_ShapeChecked ==
    ~Recognized(cx.d) => cx.phase \notin {"panic", "token", "decoded"}

\* C13: a run whose --resume text fails to decode (illegal base64, checksum
\* error, wrong magic) ends with status 1 with the hash untouched (nil, or
\* as sha256.New() made it), its position 0, no fetch issued and no byte
\* ingested.
C13_FailedDecodeLeavesState ==
    exit.why = "decode" =>
        /\ exit.code = 1
        /\ h \in {<<>>, <<New>>}
        /\ position = 0 /\ hist.restores = 0
        /\ hist.fetches = <<>> /\ body = NoBody /\ ~copying

\* The run given a full-size state with another magic was refused after
\* sha256.New().
C13_Witness ==
    /\ exit.why = "decode" /\ h = <<New>>
    /\ Len(DecodeString(resume).b) = expectedMarshaledSize

ParanoidTokens == {t \in tokens : t.by = "paranoid"}

\* C14: the paranoid goroutine goes on to print only from a tick at which
\* copying is set and the position is neither 0 nor the one it saw last;
\* the line it then prints carries that position; nothing else prints a
\* paranoid line.  This holds for every object of a run.
C14_ObserverPrintsOnAdvance ==
    /\ [](opc = "marshal" => (oposition # 0 /\ lastPosition = oposition))
    /\ [][(opc = "sleep" /\ opc' = "marshal") =>
             /\ paranoid /\ copying
             /\ hashGetLen(h) \notin {0, lastPosition}
             /\ oposition' = hashGetLen(h)
             /\ tokens' = tokens]_vars
    /\ [][(run' = run /\ ParanoidTokens' # ParanoidTokens) =>
             /\ opc = "marshal" /\ opc' = "sleep"
             /\ \E t \in ParanoidTokens' : t.position = oposition]_vars

\* A paranoid line was printed for the second object of a run.
C14_Witness ==
    /\ Len(args) = 2 /\ idx = 2
    /\ \E t \in ParanoidTokens : t.arg = 2 /\ t.position = 65

\* C15: a step that captures the state (a tick of the paranoid goroutine,
\* its print, the print on the interrupt path) leaves the accumulator, the
\* interrupted flag, the context, the response body and the copy in
\* progress as they were, and a second capture made right after the print
\* gives the bytes that were printed.
C15_CaptureLeavesState ==
    [][(run' = run /\ (tokens' # tokens \/ opc' # opc)) =>
          /\ h' = h
          /\ ctxDone' = ctxDone /\ sigChan' = sigChan
          /\ interrupted' = interrupted
          /\ body' = body /\ wp' = wp /\ copying' = copying
          /\ copyErr' = copyErr /\ position' = position
          /\ \A t \in tokens' :
                t \notin tokens => t.token = EncodeBase64(hashMarshalBinary(h).b)]_vars

\* The paranoid goroutine has printed the state of a copy that is still
\* going on, and a capture now gives the same bytes.
C15_Witness ==
    /\ copying /\ opc = "sleep" /\ hashGetLen(h) = 65
    /\ \E t \in ParanoidTokens :
          /\ t.position = 65
          /\ t.token = EncodeBase64(hashMarshalBinary(h).b)

\* [checksum, len, h, x] with the trailing zero bytes removed, for the
\* accumulator d.
CompactOf(d) ==
    LET b    == MarshalBinary(d)
        b2 == TrimRightZeros(Slice(b, 4 + 96, Len(b)) \o Slice(b, 4, 4 + 96))
    IN  <<fletcher8(b2)>> \o b2

\* C16: the bytes hashMarshalBinary returns are the compact ones exactly
\* when those are fewer than MarshalBinary's 108 bytes, and MarshalBinary's
\* otherwise; they are never more than 108; with an empty buffer they are at
\* most 1 + 8 + 32 bytes.
C16_CompactWhenShorter ==
    (cx.phase = "token" /\ ~cx.flipped) =>
        LET full == MarshalBinary(cx.d) IN
        /\ cx.b = (IF Len(CompactOf(cx.d)) < Len(full)
                   THEN CompactOf(cx.d) ELSE full)
        /\ Len(cx.b) <= Len(full)
        /\ ((cx.d.nx = 0 /\ cx.d.len <= 4096) =>
               (Len(cx.b) <= 1 + 8 + 32 /\ Len(cx.b) < Len(full)))

\* The state after 4096 bytes, encoded in no more than 41 bytes.
C16_Witness ==
    /\ cx.phase = "token" /\ ~cx.flipped
    /\ cx.d.nx = 0 /\ cx.d.len = 4096
    /\ Len(cx.b) <= 1 + 8 + 32

\* [len, h, x]: the 104 bytes that follow the checksum before the trim.
Untrimmed(d) ==
    LET b == MarshalBinary(d) IN Slice(b, 4 + 96, Len(b)) \o Slice(b, 4, 4 + 96)

\* C17: the compact encoding keeps the 8 bytes of len, the 32 bytes of h and
\* the nx valid bytes of x; only bytes of x at or beyond nx are removed.
C17_TrimOnlyUnusedTail ==
    (cx.phase = "token" /\ ~cx.flipped) =>
        Len(cx.b) >= 1 + 8 + 32 + cx.d.nx

\* C17 amended: the trim removes trailing zero bytes only, whichever field
\* they belong to, and hashUnmarshalBinary puts zeros back in their place:
\* what follows the checksum is a prefix of [len, h, x], the rest of
\* [len, h, x] is zero, and the decoded state is the encoded one.
C17_TrimOnlyZeros ==
    (cx.phase = "token" /\ ~cx.flipped) =>
        LET u == Untrimmed(cx.d)
            n == Len(cx.b) - 1
        IN  /\ n <= Len(u)
            /\ Tail(cx.b) = SubSeq(u, 1, n)
            /\ \A i \in (n + 1)..Len(u) : u[i] = 0
            /\ hashUnmarshalBinary(New, cx.b).err = NoErr
            /\ StateEq(hashUnmarshalBinary(New, cx.b).d, cx.d)

\* A valid buffer byte that is zero has been removed.
C17_Witness ==
    /\ cx.phase = "token" /\ ~cx.flipped
    /\ cx.d.nx > 0
    /\ Len(cx.b) < 1 + 8 + 32 + cx.d.nx

\* hashMarshalBinary's test: MarshalBinary's bytes are reorganised.
ProducedCompact(d) ==
    LET b == MarshalBinary(d) IN
    Len(b) = expectedMarshaledSize /\ Slice(b, 0, 4) = magic256

\* hashUnmarshalBinary's test: the bytes are taken as [checksum, len, h, x].
DecodedCompact(b) == Len(b) # expectedMarshaledSize

\* C18: hashUnmarshalBinary tells the two layouts apart by the length alone,
\* and for the bytes hashMarshalBinary produced it picks the layout they were
\* produced in: reorganised bytes never have 108 bytes, and the decoded
\* state is the encoded one.
C18_ShapeByLength ==
    (cx.phase \in {"token", "decoded"} /\ ~cx.flipped) =>
        /\ ProducedCompact(cx.d) = DecodedCompact(cx.b)
        /\ (ProducedCompact(cx.d) => Len(cx.b) # expectedMarshaledSize)
        /\ (cx.phase = "decoded" =>
               (cx.r.err = NoErr /\ StateEq(cx.r.d, cx.d)))

\* The longest reorganised token (63 buffered bytes, the last not zero) has
\* been decoded.
C18_Witness ==
    /\ cx.phase = "decoded" /\ ~cx.flipped
    /\ cx.d.nx = 63
    /\ Len(cx.b) = 1 + 8 + 32 + 63
    /\ cx.r.err = NoErr

\* C19: d.nx = d.len % chunk in the accumulator after sha256.New(), after
\* a Write, after hashUnmarshalBinary accepted a token (one the encoder
\* produced or any other input), and after a Write that follows the restore.
C19_BufferLenIsLenModChunk ==
    /\ Recognized(cx.d) => cx.d.nx = cx.d.len % chunk
    /\ (cx.phase \in {"decoded", "parsed", "ingested"} /\ cx.r.err = NoErr) =>
           cx.r.d.nx = cx.r.d.len % chunk

\* An input that no encoder produced was accepted with len = 70, and 58
\* more bytes completed its block.
C19_Witness ==
    /\ cx.phase = "ingested"
    /\ cx.b = Sealed(<<0, 0, 0, 0, 0, 0, 0, 70>>)
    /\ cx.r.d.len = 128 /\ cx.r.d.nx = 0

\* Where the main goroutine is with the object args[idx].  "Failed" is an
\* exit of the main goroutine with an error and without a state printed.
Phase ==
    IF exit.why = "abort" THEN "Interrupted"
    ELSE IF pc \in {"compare", "done"}
            \/ (pc = "exit" /\ \E s \in sums : s.arg = arg) THEN "Completed"
    ELSE IF pc = "exit" THEN "Failed"
    ELSE IF pc \in {"start", "loop"} THEN "Idle"
    ELSE IF pc = "fetch" THEN "Fetching"
    ELSE "Hashing"

SessionEdges ==
    { <<"Idle", "Fetching">>, <<"Fetching", "Hashing">>,
      <<"Hashing", "Completed">>, <<"Hashing", "Interrupted">>,
      <<"Idle", "Failed">>, <<"Fetching", "Failed">>, <<"Hashing", "Failed">>,
      <<"Completed", "Idle">>, <<"Interrupted", "Idle">> }

\* C20: for each object the main goroutine goes from Idle to Fetching to
\* Hashing and then to one of Completed and Interrupted (or fails with an
\* error); from Completed it only goes on to the next object and from
\* Interrupted only a new run starts.  No run prints both a sum and an
\* interrupt-path resume command for one object; the sum is printed only
\* from Hashing after io.Copy returned nil at the end of the stream; the
\* resume command only from Hashing after a cancelled copy; and once
\* Completed, Interrupted or Failed the accumulator and the body are left
\* alone.
C20_SessionStates ==
    /\ [](\A s \in sums : \A t \in AbortTokens : s.arg # t.arg)
    /\ [][Phase' # Phase =>
             /\ <<Phase, Phase'>> \in SessionEdges
             /\ (Phase = "Interrupted" => run' = run + 1)
             /\ (Phase = "Completed" => (run' = run /\ idx < Len(args)))]_vars
    /\ [][(run' = run /\ sums' # sums) =>
             /\ Phase = "Hashing" /\ Phase' = "Completed"
             /\ copyErr = NoErr /\ body.off = body.end /\ ~copying
             /\ \A s \in sums' : s \notin sums => s.arg = arg]_vars
    /\ [][(run' = run /\ AbortTokens' # AbortTokens) =>
             /\ Phase = "Hashing" /\ Phase' = "Interrupted"
             /\ copyErr = "canceled"]_vars
    /\ [][(run' = run /\ Phase \in {"Completed", "Interrupted", "Failed"}) =>
             (h' = h /\ body' = body /\ wp' = wp)]_vars

\* A run over two objects printed the sum of the first and was interrupted
\* in the second.
C20_Witness ==
    /\ Len(args) = 2 /\ exit.why = "abort"
    /\ \E s \in sums : s.arg = args[1]
    /\ \E t \in AbortTokens : t.arg = args[2]

ToLower(t) ==
    LET u == t IN SubSeq([i \in 1..Len(u) |-> ToLowerChar(u[i])], 1, Len(u))

\* The expected checksum attached to object o and where it is attached:
\* the metadata entry if there is one, else the first 'sha256sum' tag.
Attached(o) ==
    IF Metadata(o) # <<>> THEN [sum |-> Metadata(o), source |-> "metadata"]
    ELSE IF \E i \in 1..Len(TagSet(o)) : TagSet(o)[i].Key = "sha256sum"
    THEN LET i == CHOOSE i \in 1..Len(TagSet(o)) :
                      /\ TagSet(o)[i].Key = "sha256sum"
                      /\ \A j \in 1..(i - 1) : TagSet(o)[j].Key # "sha256sum"
         IN  [sum |-> TagSet(o)[i].Value, source |-> "tag"]
    ELSE [sum |-> <<>>, source |-> "none"]

\* C21: every comparison printed is for an object whose sum was printed; it
\* says OK exactly when the attached checksum and the printed sum are equal
\* up to letter case, FAILED when one is attached and they differ, and
\* neither when none is attached; the metadata entry wins over the tag.
\* Every object whose comparison step is over has its comparison printed,
\* and the step ends the run with an error only where the tags had to be
\* requested.  Resumed runs are among the runs.
C21_ComparisonReported ==
    /\ \A r \in reports :
          \E s \in sums :
             /\ s.arg = r.arg
             /\ LET e == Attached(r.arg) IN
                /\ r.out = (IF e.sum = <<>> THEN "absent"
                            ELSE IF ToLower(e.sum) = ToLower(s.sum) THEN "OK"
                            ELSE "FAILED")
                /\ (r.out # "absent" => r.source = e.source)
    /\ \A s \in sums :
          (s.arg # arg \/ pc \in {"loop", "done"}) =>
              \E r \in reports : r.arg = s.arg
    /\ (pc = "exit" /\ \E s \in sums : s.arg = arg) =>
           (Metadata(arg) = <<>> /\ TagCount(arg) > 0)

\* A resumed run has compared its sum with the object's tag, which is
\* written in capital letters, and printed OK.
C21_Witness ==
    /\ run = 2 /\ hist.startLen > 0
    /\ \E r \in reports : r.arg = 2 /\ r.out = "OK" /\ r.source = "tag"

\* The status of os.Exit after an error that leaves no state to resume from.
exitFailure == 1

\* C22: a run that fails without a resume command ends with exitFailure,
\* and a run that was interrupted and printed a resume command ends with
\* another status.
C22_DistinctExitStatus ==
    /\ exit.why \in {"error", "decode", "usage"} => exit.code = exitFailure
    /\ exit.why = "abort" => exit.code # exitFailure

\* C23: a run asks for each object at most once; once the resume text
\* failed to decode, GetObject failed or io.Copy returned an error, nothing
\* more is asked for or written into the accumulator; a decode error comes
\* before any request; and the step after the copy's error ends the run.
C23_ErrorsEndTheObject ==
    /\ [](\A i, j \in 1..Len(hist.fetches) :
             i # j => hist.fetches[i].arg # hist.fetches[j].arg)
    /\ [](exit.why \in {"decode", "usage"} => hist.fetches = <<>>)
    /\ [][(run' = run /\ (exit.why \in {"decode", "usage", "error", "marshal"}
                           \/ copyErr # NoErr)) =>
             /\ h' = h /\ body' = body /\ idx' = idx
             /\ hist'.fetches = hist.fetches
             /\ hist'.restores = hist.restores]_vars
    /\ [][(pc = "check" /\ pc' # pc /\ copyErr # NoErr) =>
             (exit'.code = 1 /\ pc' = "exit")]_vars

\* The stream failed after bytes had been written: one request, and the run
\* has ended with an error.
C23_Witness ==
    /\ exit.why = "error" /\ copyErr = "error"
    /\ Len(hist.fetches) = 1 /\ hashGetLen(h) > 0

\* C24: with --resume and more than one object the run ends with status 1
\* where it started: nothing was decoded into h, no position was set and
\* no request was made; and whenever a state has been restored, the run has
\* one object only.
C24_ResumeSingleObject ==
    /\ (resume # <<>> /\ Len(args) > 1) =>
           /\ pc \in {"start", "exit"}
           /\ h = <<>> /\ position = 0 /\ idx = 0
           /\ hist.restores = 0 /\ hist.fetches = <<>>
           /\ sums = {} /\ tokens = {}
           /\ (~Alive => exit.code = 1)
           /\ (pc = "exit" => exit.why = "usage")
    /\ hist.restores > 0 => (Len(args) = 1 /\ idx <= 1)

\* The run with a decodable --resume text and two objects has ended.
C24_Witness ==
    /\ resume = GoodToken /\ Len(args) = 2
    /\ exit = [code |-> 1, why |-> "usage"]

\* C25: in a run started from the resume command of an interrupted run,
\* itself possibly a resumed one, the sum printed is the sum of one pass over
\* the whole object, and when the copy has ended without error the
\* accumulator has taken in as many bytes as the object has: the bytes
\* before the restored position in earlier runs, the rest in this one.
C25_CyclesEquivalent ==
    run > 1 =>
        /\ \A s \in sums : s.sum = RefSum(s.arg)
        /\ (pc \in {"sum", "compare", "done"} =>
               /\ hashGetLen(h) = ObjLen(arg)
               /\ hist.fetches = <<[arg |-> arg, from |-> hist.startLen]>>
               /\ body.off = ObjLen(arg))

\* The third run, started from the resume command that the second run
\* printed after 65 bytes, has printed the sum.
C25_Witness ==
    /\ run = 3 /\ hist.startLen = 65
    /\ sums # {} /\ pc = "done"

\* C26: the request of a run that was started from an interrupted run's
\* resume command is one the store can answer, also when the command was
\* printed after the last byte of the object.
C26_EveryTokenUsable ==
    (run > 1 /\ pc = "fetch") => Satisfiable(arg, position)

\* C27: in a run without --resume every request is for the whole object
\* (from byte 0), the objects are asked for in the order of the arguments,
\* the copy of each object starts on sha256.New() and at the first byte of
\* that object's body, and with several objects every sum printed is the sum
\* of that object's bytes alone.
C27_FreshPerObject ==
    /\ [](resume = <<>> =>
             \A i \in 1..Len(hist.fetches) :
                hist.fetches[i] = [arg |-> args[i], from |-> 0])
    /\ []((resume = <<>> /\ Len(args) > 1) =>
             \A s \in sums : s.sum = RefSum(s.arg))
    /\ [][(resume = <<>> /\ pc = "hash" /\ pc' = "flag") =>
             (h' = <<New>> /\ body'.obj = arg /\ body'.off = 0)]_vars

\* The three sums of a run over three objects have been printed.
C27_Witness ==
    /\ resume = <<>> /\ Len(args) = 3 /\ idx = 3
    /\ Cardinality(sums) = 3 /\ pc = "done"

\* C28: every resume command the paranoid goroutine prints names the
\* object for which the accumulator it marshalled was created, with that
\* object's length.
C28_ObserverPairsObject ==
    \A t \in ParanoidTokens :
        /\ t.of = t.arg
        /\ t.objLength = ObjLen(t.arg)

\* C29: while copying is set h is not nil; the paranoid goroutine, once past
\* its test of copying, marshals an accumulator that exists; the flag is
\* raised only with h assigned and bytes are written only while it is
\* raised; and for a nil h hashGetLen is 0 and hashMarshalBinary returns no
\* state and no error.
C29_CopyingImpliesAccumulator ==
    /\ [](copying => h # <<>>)
    /\ [](opc = "marshal" => h # <<>>)
    /\ [](h = <<>> => (/\ hashGetLen(h) = 0
                       /\ hashMarshalBinary(h).isNil
                       /\ hashMarshalBinary(h).err = NoErr
                       /\ tokens = {}))
    /\ [][(copying' /\ ~copying) => (h # <<>> /\ h' = h)]_vars
    /\ [][(pc \in {"wlen", "wbuf", "wrest"} /\ h' # h) => copying]_vars
    /\ [](pc \in {"check", "sum", "compare", "loop", "fetch", "hash", "done"}
             => ~copying)

\* The copy of the first object of a run without --resume is going on and
\* the paranoid goroutine is about to marshal.
C29_Witness ==
    /\ resume = <<>> /\ idx = 1 /\ copying
    /\ opc = "marshal" /\ h # <<>>

\* C30: every byte string of the reorganised shape that hashUnmarshalBinary
\* accepts is exactly what hashMarshalBinary produces for the state it was
\* decoded to, so that inputs with explicit trailing zero bytes, or with more
\* bytes than the reorganised layout holds, are rejected and no input byte is
\* ignored.
C30_OnlyCanonicalAccepted ==
    (/\ cx.phase \in {"decoded", "parsed"}
     /\ DecodedCompact(cx.b)
     /\ cx.r.err = NoErr)
        => hashMarshalBinary(<<cx.r.d>>).b = cx.b

====
